---- MODULE Spec2Model ----
(***************************************************************************)
(* Book / research-paper recommender: the artifact pipeline (feature       *)
(* building, indexing) and the two ranking implementations.                *)
(*                                                                         *)
(*   TF-IDF strategy     src/src/models/model1/{model,predict}.py          *)
(*   embedding strategy  src/app_src/models/model2/{model,train,predict}.py*)
(*   feature building    src/app_src/data/build_features.py                *)
(*   ingestion           src/app_src/data/ingestion.py                     *)
(*   the app             src/main.py                                       *)
(*                                                                         *)
(* Numbers: every score the code keeps as a float in [0,1] is kept here as *)
(* an integer percentage 0..100; a final score, a weighted sum with        *)
(* weights that add up to 100, is kept in 0..10000.  A text is kept as the *)
(* set of its word tokens.                                                 *)
(***************************************************************************)
EXTENDS Integers, Sequences, FiniteSets, TLC

VARIABLES
    strategy,     \* which implementation this deployment runs
    argsortTies,  \* how this build's quicksort argsort orders equal keys
    feat,         \* data/interim/modified_{books,papers}.csv
    tfidfModel,   \* data/processed/models/{book,paper}_tfidf_vectorizer.pkl
    tfidfMat,     \* data/processed/matrices/{book,paper}_tfidf_matrix.npz
    final,        \* the final CSVs written by the TF-IDF trainer
    embMat,       \* sentence_transformer_{book,paper}_matrix.npy
    cache,        \* SimplePredictor.{book,paper}_vec / _mat
    run,          \* the last pipeline run, until a ranking call follows it
    result,       \* the last ranking call, until a pipeline run follows it
    raw,          \* data/external: the ingested JSON files of the cleaning stage
    cleaned,      \* data/raw: the cleaned CSVs the cleaning stage writes
    txt,          \* the last text handed to clean_text and what came back
    calls,        \* ranking calls in flight, each with its position and locals
    expected,     \* what each ranking call returns when it runs alone
    ingest,       \* the ingestion run: its position, its locals, its requests
    session       \* st.session_state.results of the app

vars == <<strategy, argsortTies, feat, tfidfModel, tfidfMat, final, embMat,
          cache, run, result, raw, cleaned, txt, calls, expected, ingest, session>>

\* What the artifact pipeline and the sequential ranking calls leave alone.
stageVars == <<raw, cleaned, txt, calls, expected, ingest, session>>

(***************************************************************************)
(* Bounds of the model.                                                    *)
(***************************************************************************)
MaxRows == 2      \* longest cleaned table handed to feature building
MaxK == 3         \* largest k_books / k_papers of a ranking call

Cat == {"books", "papers"}
NoTag == <<0, "-">>
Missing == [tag |-> NoTag, rows |-> <<>>]    \* the file does not exist
NoModel == [tag |-> NoTag, vocab |-> {}]     \* the vectorizer file does not exist
NoPair == [table |-> NoTag, matrix |-> NoTag]
NoVal == -1                   \* NaN in a numeric column
Blank == -2                   \* "" in a column that was absent and substituted
Ks == {1, MaxK}
RowCounts == {1, MaxRows}
StopWords == {"the"}
Queries == {{}, {"ml"}}
Variants == {"a", "b"}

Min(S) == CHOOSE x \in S : \A y \in S : x <= y
Max(S) == CHOOSE x \in S : \A y \in S : x >= y
MinOf(a, b) == IF a <= b THEN a ELSE b

(***************************************************************************)
(* Cleaned tables (data/raw/*.csv), the input of feature building.  A row  *)
(* keeps the title as id, the words of its text columns, and the raw year, *)
(* rating (books) or citation count (papers) and page count.  Variant "a"  *)
(* has rows that differ in text and in every signal, with one NaN year and *)
(* one NaN rating; variant "b" has identical rows, lacks the date and the   *)
(* page count column, and for a single row has a text of stop words only.  *)
(***************************************************************************)
CleanedRow(n, v, i) ==
    IF v = "a"
    THEN [id |-> i,
          text |-> IF i % 3 = 1 THEN {"ml"}
                   ELSE IF i % 3 = 2 THEN {"ml", "nlp"} ELSE {"nlp"},
          year |-> IF i = 3 THEN NoVal ELSE i,
          qual |-> IF i = 1 THEN NoVal ELSE i,
          pages |-> i]
    ELSE [id |-> i,
          text |-> IF n = 1 THEN {"the"} ELSE {"nlp", "the"},
          year |-> Blank,
          qual |-> 2,
          pages |-> Blank]

CleanedTable(n, v) ==
    [tag |-> <<n, v>>, rows |-> [i \in 1..n |-> CleanedRow(n, v, i)]]

CleanedTables ==
    {CleanedTable(n, v) : n \in RowCounts, v \in Variants} \ {CleanedTable(1, "a")}

(***************************************************************************)
(* Cleaning stage (app_src/data/cleaning.py).  An ingested item keeps its  *)
(* title, the lowercased words of its title and description, its page      *)
(* count and a body that tells apart two items of one title.               *)
(***************************************************************************)
MaxRaw == 2       \* most items of one ingested file

Unreadable == [ok |-> FALSE, rows |-> <<>>]       \* missing, or not the JSON expected
NotWritten == [written |-> FALSE, rows |-> <<>>]  \* the cleaned CSV does not exist

Keywords == {"ml"}      \* configs/book_topics.yaml: every keyword of every topic

RawBookItems ==
    { [title |-> "t1", words |-> {"ml"}, pages |-> 3, body |-> "x", lacks |-> "none"],
      [title |-> "t1", words |-> {"ml"}, pages |-> 0, body |-> "y", lacks |-> "pageCount"],
      [title |-> "t2", words |-> {"art"}, pages |-> 3, body |-> "x", lacks |-> "none"],
      [title |-> "t2", words |-> {"ml"}, pages |-> 5, body |-> "y", lacks |-> "description"],
      [title |-> "t1", words |-> {"ml", "art"}, pages |-> 5, body |-> "z", lacks |-> "none"],
      [title |-> "t2", words |-> {}, pages |-> 0, body |-> "v", lacks |-> "volumeInfo"] }

RawPaperItems ==
    { [title |-> "t1", body |-> "x", lacks |-> "none"],
      [title |-> "t1", body |-> "y", lacks |-> "abstract"],
      [title |-> "t2", body |-> "x", lacks |-> "none"],
      [title |-> "t2", body |-> "n", lacks |-> "authors"] }

SeqsUpTo(S, n) == UNION {[1..m -> S] : m \in 0..n}

RawFiles(c) ==
    {Unreadable} \cup
    {[ok |-> TRUE, rows |-> r] :
        r \in SeqsUpTo(IF c = "books" THEN RawBookItems ELSE RawPaperItems, MaxRaw)}

\* The rows of a table whose index is in keep, in the table's order.
RECURSIVE RowsAt(_, _, _)
RowsAt(rows, keep, i) ==
    IF i > Len(rows) THEN <<>>
    ELSE (IF i \in keep THEN <<rows[i]>> ELSE <<>>) \o RowsAt(rows, keep, i + 1)

\* if any(k in title or k in desc for k in ml_keywords)
MatchesKeyword(item) == item.words \cap Keywords # {}
KeywordFilter(rows) ==
    RowsAt(rows, {i \in DOMAIN rows : MatchesKeyword(rows[i])}, 1)

\* drop_duplicates on every column: rows of one title and different bodies stay.
DropDuplicateRows(rows) ==
    RowsAt(rows, {i \in DOMAIN rows : \A j \in 1..(i - 1) : rows[j] # rows[i]}, 1)

\* drop_duplicates(subset="title", keep="first")
DropDuplicates(rows) ==
    RowsAt(rows,
           {i \in DOMAIN rows : \A j \in 1..(i - 1) : rows[j].title # rows[i].title}, 1)

\* df_books[df_books["pagecount"] > 0]
PositivePages(rows) == RowsAt(rows, {i \in DOMAIN rows : rows[i].pages > 0}, 1)

\* A books stage that filters on the page count before it drops duplicates.
CleanBooksPagesFirst(rows) ==
    [written |-> TRUE, rows |-> DropDuplicates(PositivePages(KeywordFilter(rows)))]

\* clean_and_save_books / clean_and_save_papers: what to_csv writes.
CleanBooks(rows) ==
    [written |-> TRUE, rows |-> PositivePages(DropDuplicates(KeywordFilter(rows)))]
CleanPapers(rows) == [written |-> TRUE, rows |-> DropDuplicates(rows)]

\* item["volumeInfo"] raises KeyError for a record without that key, for any
\* record of the file; iterating p.get("authors", []) raises TypeError for a
\* record whose authors is null.  The .get(..., default) of the other fields
\* never raise.
RecordRaises(rows) ==
    \E i \in DOMAIN rows : rows[i].lacks \in {"volumeInfo", "authors"}

\* How clean_and_save_papers and clean_and_save_books end: each reads its
\* file (books the keyword file too), builds its records, then writes.
CleanOutcome(topicsOk) ==
    [c \in Cat |->
       IF c = "papers"
       THEN IF ~raw[c].ok THEN "unreadable"
            ELSE IF RecordRaises(raw[c].rows) THEN "record_error"
            ELSE "written"
       ELSE IF ~raw["papers"].ok \/ RecordRaises(raw["papers"].rows)
            THEN "notreached"
            ELSE IF ~raw[c].ok THEN "unreadable"
            ELSE IF ~topicsOk THEN "no_topics"
            ELSE IF RecordRaises(raw[c].rows) THEN "record_error"
            ELSE "written"]

\* initiate_data_cleaning: papers, then books; what raises ends the run.
Clean ==
    /\ \E topicsOk \in BOOLEAN :
         /\ cleaned' =
               [c \in Cat |->
                  IF CleanOutcome(topicsOk)[c] # "written" THEN cleaned[c]
                  ELSE IF c = "papers" THEN CleanPapers(raw[c].rows)
                  ELSE CleanBooks(raw[c].rows)]
         /\ run' = [op |-> "clean", query |-> {}, again |-> FALSE,
                    gate |-> CleanOutcome(topicsOk)]
    /\ UNCHANGED <<strategy, argsortTies, feat, tfidfModel, tfidfMat, final,
                   embMat, cache, result, raw, txt, calls, expected, ingest, session>>

(***************************************************************************)
(* Ingestion (app_src/data/ingestion.py).  initiate_data_ingestion reads   *)
(* the two topic files, fetches every book keyword page by page, then      *)
(* every paper keyword page by page, and writes the two JSON files.  The   *)
(* paging parameters are scaled down; a page the API answers with items is *)
(* kept as one item of it.                                                 *)
(***************************************************************************)
MaxQueries == 2         \* most keywords of one topic file
BookPages == 2          \* requests per book keyword: range(0, 80, 10) has 8
PaperLimit == 2         \* limit: results per request (100)
PaperMaxResults == 3    \* max_results: results asked of one keyword (300)

NoIngest ==
    [pc |-> "idle", nb |-> 0, np |-> 0, qi |-> 0, off |-> 0,
     books |-> <<>>, papers |-> <<>>,
     log |-> [q \in 1..MaxQueries |-> <<>>], fetched |-> FALSE]

\* One page of volumes, and one page of papers of a keyword at an offset
\* (item["searchQuery"] = query).
BookPage == <<[title |-> "t1", words |-> {"ml"}, pages |-> 3, body |-> "x",
               lacks |-> "none"]>>
PaperPage(q, off) == <<[q |-> q, off |-> off]>>
PaperItem(p) == [title |-> "t1", body |-> "x", lacks |-> "none"]

\* What a request of the books loop ends in: items, a body without "items"
\* (an empty page or an error body), or an exception of requests.get or
\* response.json.
BookResponses == {"items", "none", "raise"}

\* What a request of the papers loop ends in: status 200 with items, status
\* 200 without, another status, or an exception.
PaperResponses == {"items", "none", "non200", "raise"}

\* range(0, max_results, limit): whether offset off is still in the range.
PaperLoopOneMore(off) == off < PaperMaxResults + PaperLimit
PaperLoopContinues(off) == off < PaperMaxResults

\* Everything ingestion leaves alone.
ingestReads == <<strategy, argsortTies, feat, tfidfModel, tfidfMat, final,
                 embMat, cache, run, result, cleaned, txt, calls, expected,
                 session>>

\* initiate_data_ingestion up to the first request: the topic files are read
\* and the keyword lists built; a file that cannot be read raises.
StartIngestion ==
    /\ ingest.pc = "idle"
    /\ \E topicsOk \in BOOLEAN, nb \in 0..MaxQueries, np \in 0..MaxQueries :
         ingest' = IF topicsOk
                   THEN [ingest EXCEPT !.pc = "books", !.nb = nb, !.np = np,
                                       !.qi = 1, !.off = 0]
                   ELSE [ingest EXCEPT !.pc = "failed"]
    /\ UNCHANGED raw
    /\ UNCHANGED ingestReads

\* load_books_data: one request.  There is no status check: whatever body
\* comes back, its "items" (none if absent) are appended and paging goes on.
FetchBookPage ==
    /\ ingest.pc = "books"
    /\ ingest.qi <= ingest.nb
    /\ \E resp \in BookResponses :
         ingest' =
            IF resp = "raise" THEN [ingest EXCEPT !.pc = "failed"]
            ELSE LET last == ingest.off + 1 = BookPages
                 IN  [ingest EXCEPT
                        !.books = IF resp = "items" THEN @ \o BookPage ELSE @,
                        !.qi = IF last THEN @ + 1 ELSE @,
                        !.off = IF last THEN 0 ELSE @ + 1]
    /\ UNCHANGED raw
    /\ UNCHANGED ingestReads

\* load_books_data returns; load_papers_data is entered.
BooksLoaded ==
    /\ ingest.pc = "books"
    /\ ingest.qi > ingest.nb
    /\ ingest' = [ingest EXCEPT !.pc = "papers", !.qi = 1, !.off = 0]
    /\ UNCHANGED raw
    /\ UNCHANGED ingestReads

\* load_papers_data: one request.  A status other than 200 and a page
\* without items break out of the paging of this keyword; the keyword's
\* papers so far are added to all_papers and the next keyword follows.
FetchPaperPage ==
    /\ ingest.pc = "papers"
    /\ ingest.qi <= ingest.np
    /\ \E resp \in PaperResponses :
         ingest' =
            IF resp = "raise" THEN [ingest EXCEPT !.pc = "failed"]
            ELSE LET q == ingest.qi
                     next == ingest.off + PaperLimit
                     over == resp # "items" \/ ~PaperLoopContinues(next)
                 IN  [ingest EXCEPT
                        !.log[q] = Append(@, resp),
                        !.papers = IF resp = "items"
                                   THEN @ \o PaperPage(q, ingest.off) ELSE @,
                        !.qi = IF over THEN @ + 1 ELSE @,
                        !.off = IF over THEN 0 ELSE next]
    /\ UNCHANGED raw
    /\ UNCHANGED ingestReads

\* load_papers_data returns.
PapersLoaded ==
    /\ ingest.pc = "papers"
    /\ ingest.qi > ingest.np
    /\ ingest' = [ingest EXCEPT !.pc = "write_books", !.fetched = TRUE]
    /\ UNCHANGED raw
    /\ UNCHANGED ingestReads

\* os.makedirs, open(..., "w") and json.dump of the books file.
WriteBooks ==
    /\ ingest.pc = "write_books"
    /\ \E ioOk \in BOOLEAN :
         IF ioOk
         THEN /\ raw' = [raw EXCEPT !["books"] = [ok |-> TRUE, rows |-> ingest.books]]
              /\ ingest' = [ingest EXCEPT !.pc = "write_papers"]
         ELSE /\ raw' = raw
              /\ ingest' = [ingest EXCEPT !.pc = "failed"]
    /\ UNCHANGED ingestReads

\* open(..., "w") and json.dump of the papers file; the artifact is returned.
WritePapers ==
    /\ ingest.pc = "write_papers"
    /\ \E ioOk \in BOOLEAN :
         IF ioOk
         THEN /\ raw' = [raw EXCEPT !["papers"] =
                          [ok |-> TRUE,
                           rows |-> [i \in DOMAIN ingest.papers |->
                                        PaperItem(ingest.papers[i])]]]
              /\ ingest' = [ingest EXCEPT !.pc = "done"]
         ELSE /\ raw' = raw
              /\ ingest' = [ingest EXCEPT !.pc = "failed"]
    /\ UNCHANGED ingestReads

(***************************************************************************)
(* clean_text and combined_text (app_src/data/build_features.py).  A       *)
(* string is the sequence of its characters; the characters kept apart are *)
(* a lowercase letter, an uppercase letter, a digit, the underscore, a     *)
(* punctuation mark that is no word character, the space and (in a cell of *)
(* a table) the tab.                                                       *)
(***************************************************************************)
MaxText == 3      \* longest string handed to clean_text on its own

Chars == {"a", "N", "_", "!", " "}
IsSpace(ch) == ch \in {" ", "TAB"}                    \* \s
IsWord(ch) == ch \in {"a", "n", "N", "7", "_"}        \* \w
LowerChar(ch) == IF ch = "N" THEN "n" ELSE ch
Strings == SeqsUpTo(Chars, MaxText)

\* What a caller can hand over: a string, a missing value (NaN, None, pd.NA),
\* a number, or an object pd.isna answers with an array for (a list).
TextValues ==
    {[kind |-> "str", s |-> x] : x \in Strings}
    \cup {[kind |-> k, s |-> <<>>] : k \in {"nan", "number", "list"}}

StrOf(v) == IF v.kind = "number" THEN <<"7">> ELSE v.s      \* str(text)

Lower(x) == [i \in DOMAIN x |-> LowerChar(x[i])]            \* .lower()

\* re.sub(r"[^\w\s]", "", text)
KeepsChar(ch) == IsWord(ch) \/ IsSpace(ch)
RemovePunctuation(x) == SelectSeq(x, KeepsChar)

\* re.sub(r"\s+", " ", text)
RECURSIVE SkipSpaces(_)
SkipSpaces(x) ==
    IF x # <<>> /\ IsSpace(Head(x)) THEN SkipSpaces(Tail(x)) ELSE x

RECURSIVE CollapseSpaces(_)
CollapseSpaces(x) ==
    IF x = <<>> THEN <<>>
    ELSE IF IsSpace(Head(x)) THEN <<" ">> \o CollapseSpaces(SkipSpaces(x))
    ELSE <<Head(x)>> \o CollapseSpaces(Tail(x))

\* .strip()
RECURSIVE DropTrailingSpaces(_)
DropTrailingSpaces(x) ==
    IF x # <<>> /\ IsSpace(x[Len(x)])
    THEN DropTrailingSpaces(SubSeq(x, 1, Len(x) - 1)) ELSE x
Strip(x) == DropTrailingSpaces(SkipSpaces(x))

Gave(x) == [status |-> "returned", s |-> x]
Raised == [status |-> "raised", s |-> <<>>]

\* The body of the try block: "if pd.isna(text)" raises for an array.
CleanTextBody(v) ==
    IF v.kind = "list" THEN Raised
    ELSE IF v.kind = "nan" THEN Gave(<<>>)
    ELSE Gave(Strip(CollapseSpaces(RemovePunctuation(Lower(StrOf(v))))))

\* clean_text without its except clause.
CleanTextUnguarded(v) == CleanTextBody(v)

\* clean_text: the except clause logs and returns "".
CleanText(v) ==
    IF CleanTextBody(v).status = "raised" THEN Gave(<<>>) ELSE CleanTextBody(v)

\* A cell pandas holds as NaN: a field that was empty or "nan" in the CSV.
NullCell == [kind |-> "nan", s |-> <<>>]

\* One cell of a text column of the cleaned table as read_csv returns it: a
\* string, or NaN for a record that had no value there.
CellValues ==
    { NullCell } \cup
    { [kind |-> "str", s |-> x] :
        x \in { <<"N", "a">>, <<"a", "_", "a">>, <<"!">>,
                <<" ", "a", "TAB", "TAB">> } }

\* Series.astype(str) on one cell: NaN becomes the string "nan".
AsStr(cell) == IF cell.kind = "nan" THEN <<"n", "a", "n">> ELSE cell.s

\* title + " " + description + " " + categories + " " + authors
Combined(parts) ==
    AsStr(parts[1]) \o <<" ">> \o AsStr(parts[2]) \o <<" ">>
        \o AsStr(parts[3]) \o <<" ">> \o AsStr(parts[4])

\* to_csv then read_csv of one cell: an empty field and the literal "nan"
\* are read as NaN.
ReadBack(x) ==
    IF x = <<>> \/ x = <<"n", "a", "n">> THEN NullCell ELSE [kind |-> "str", s |-> x]

NoText ==
    [op |-> "none", cells |-> <<>>, input |-> NullCell, out |-> Gave(<<>>),
     back |-> NullCell]

\* clean_text called on a value.
ApplyCleanText ==
    /\ \E v \in TextValues :
         txt' = [op |-> "clean_text", cells |-> <<>>, input |-> v,
                 out |-> CleanText(v), back |-> NullCell]
    /\ UNCHANGED <<strategy, argsortTies, feat, tfidfModel, tfidfMat, final,
                   embMat, cache, run, result, raw, cleaned, calls, expected,
                   ingest, session>>

\* build_book_features / build_paper_features: the combined_text of one row,
\* cleaned, written to the feature table, and read back by the trainers.
BuildCombinedText ==
    /\ \E parts \in [1..4 -> CellValues] :
         LET v == [kind |-> "str", s |-> Combined(parts)]
         IN  txt' = [op |-> "combined_text", cells |-> parts, input |-> v,
                     out |-> CleanText(v), back |-> ReadBack(CleanText(v).s)]
    /\ UNCHANGED <<strategy, argsortTies, feat, tfidfModel, tfidfMat, final,
                   embMat, cache, run, result, raw, cleaned, calls, expected,
                   ingest, session>>

(***************************************************************************)
(* Feature building.                                                       *)
(***************************************************************************)
\* sklearn MinMaxScaler.fit_transform on one column: (x - min) / (max - min),
\* and 0 for every row when max = min (the scaler divides by 1 then).
MinMaxScale(vals) ==
    LET S == {vals[i] : i \in DOMAIN vals}
        lo == Min(S)
        hi == Max(S)
    IN  [i \in DOMAIN vals |->
            IF hi = lo THEN 0 ELSE (100 * (vals[i] - lo)) \div (hi - lo)]

\* recency_score: the scaler is fitted on the rows that have a year; the
\* other rows are NaN and become 0 in the final fillna(0).
RecencyScores(rows) ==
    LET valid == {i \in DOMAIN rows : rows[i].year \notin {NoVal, Blank}}
    IN  IF valid = {} THEN [i \in DOMAIN rows |-> 0]
        ELSE LET lo == Min({rows[i].year : i \in valid})
                 hi == Max({rows[i].year : i \in valid})
             IN  [i \in DOMAIN rows |->
                    IF i \notin valid \/ hi = lo THEN 0
                    ELSE (100 * (rows[i].year - lo)) \div (hi - lo)]

\* rating_score / citations_score / page_score: fillna(0), then the scaler
\* over every row.
\* A fill of missing values by the top rating instead of 0.
FillNaTop(x) == IF x = NoVal THEN 5 ELSE x
FillNa0(x) == IF x = NoVal THEN 0 ELSE x

\* fillna(0).astype(float) raises for a column of "".
CastFails(vals) == \E i \in DOMAIN vals : vals[i] = Blank

\* An except clause that sets the score to 1.0.
ScoreOrOne(vals) ==
    IF CastFails(vals) THEN [i \in DOMAIN vals |-> 100]
    ELSE MinMaxScale([i \in DOMAIN vals |-> FillNa0(vals[i])])

\* rating_score / citations_score / page_score: fillna(0), then the scaler
\* over every row; the except clause sets the score to 0.0 for every row.
ScoreOrZero(vals) ==
    IF CastFails(vals) THEN [i \in DOMAIN vals |-> 0]
    ELSE MinMaxScale([i \in DOMAIN vals |-> FillNa0(vals[i])])

QualScores(rows) == ScoreOrZero([i \in DOMAIN rows |-> rows[i].qual])
PageScores(rows) == ScoreOrZero([i \in DOMAIN rows |-> rows[i].pages])

\* A feature stage that appends its rows to the table it finds.
BuildTableAppends(c, t) ==
    LET rec == RecencyScores(t.rows)
        qs == QualScores(t.rows)
        ps == PageScores(t.rows)
        built == [i \in DOMAIN t.rows |->
                  [id |-> t.rows[i].id,
                   text |-> t.rows[i].text,
                   qual |-> qs[i],
                   recency |-> rec[i],
                   page |-> IF c = "books" THEN ps[i] ELSE 0]]
    IN  [tag |-> t.tag,
         rows |-> IF Len(feat[c].rows) + Len(built) <= 2 * MaxRows
                  THEN feat[c].rows \o built ELSE built]

\* build_book_features / build_paper_features: the cleaned rows in their
\* order, with the scores and combined_text added.  Papers have no page_score.
BuildTable(c, t) ==
    LET rec == RecencyScores(t.rows)
        qs == QualScores(t.rows)
        ps == PageScores(t.rows)
    IN  [tag |-> t.tag,
         rows |-> [i \in DOMAIN t.rows |->
                     [id |-> t.rows[i].id,
                      text |-> t.rows[i].text,
                      qual |-> qs[i],
                      recency |-> rec[i],
                      page |-> IF c = "books" THEN ps[i] ELSE 0]]]

\* The columns of the cleaned CSVs, and of the feature tables to_csv writes:
\* the books table also has the year column (Date_Extracted is dropped, year
\* is not).
CleanedColumns(c) ==
    IF c = "books"
    THEN {"title", "authors", "description", "categories", "publisher",
          "publishedDate", "avgrating", "pagecount", "previewLink"}
    ELSE {"SearchQuery", "Title", "Abstract", "Authors", "Year", "Citations",
          "Venue", "URL"}

FeatureColumns(c) ==
    IF c = "books"
    THEN CleanedColumns(c) \cup
            {"year", "recency_score", "rating_score", "page_score", "combined_text"}
    ELSE CleanedColumns(c) \cup {"recency_score", "citations_score", "combined_text"}

\* What the books table holds in publishedDate after the stage: the column is
\* overwritten with pd.to_datetime of the date or year found in the text.
DateCells == {"2019-05-01", "2019", "May 2019", ""}
PublishedDateWritten(d) ==
    IF d = "2019-05-01" THEN "2019-05-01"
    ELSE IF d \in {"2019", "May 2019"} THEN "2019-01-01"
    ELSE ""

NoResult ==
    [op |-> "none", query |-> {}, k |-> [c \in Cat |-> 0], status |-> "none",
     err |-> "none", list |-> [c \in Cat |-> <<>>],
     used |-> [c \in Cat |-> NoPair],
     rows |-> [c \in Cat |-> 0],
     absent |-> [c \in Cat |-> FALSE],
     mismatch |-> [c \in Cat |-> FALSE],
     again |-> FALSE]

NotLoaded == [vec |-> NoModel, mat |-> Missing]   \* both fields None

NoRun == [op |-> "none", query |-> {}, again |-> FALSE, gate |-> [c \in Cat |-> "none"]]

\* initiate_build_features: books first, then papers; a stage that cannot read
\* its cleaned CSV raises, and what was written before it stays written.
BuildFeatures ==
    /\ \E cb \in CleanedTables \cup {Missing}, cp \in CleanedTables \cup {Missing} :
         /\ feat' = [c \in Cat |->
                IF c = "books"
                THEN IF cb = Missing THEN feat[c] ELSE BuildTable(c, cb)
                ELSE IF cb = Missing \/ cp = Missing THEN feat[c]
                     ELSE BuildTable(c, cp)]
         /\ LET gate == [c \in Cat |->
                       IF c = "books"
                       THEN IF cb = Missing THEN "failed" ELSE "written"
                       ELSE IF cb = Missing THEN "notreached"
                            ELSE IF cp = Missing THEN "failed" ELSE "written"]
                in == [c \in Cat |-> IF c = "books" THEN cb ELSE cp]
            IN  run' = [op |-> "features", query |-> {},
                        again |-> /\ run.op = "features"
                                  /\ run.gate = gate
                                  /\ \A c \in Cat : gate[c] = "written" =>
                                                        in[c].tag = feat[c].tag,
                        gate |-> gate]
    /\ result' = NoResult
    /\ UNCHANGED <<strategy, argsortTies, tfidfModel, tfidfMat, final, embMat,
                   cache>>
    /\ UNCHANGED stageVars

(***************************************************************************)
(* Similarity and scores.                                                  *)
(***************************************************************************)
\* cosine_similarity of two word vectors, here the squared cosine of the two
\* word sets as a percentage: 0 when they share no word (or one is empty),
\* 100 when they are equal.
CosineSim(qv, row) ==
    LET common == Cardinality(qv \cap row)
    IN  IF common = 0 THEN 0
        ELSE (100 * common * common) \div (Cardinality(qv) * Cardinality(row))

\* Book weights that sum to more than 1.
BookFinalScoreHeavy(sim, r) == 65 * sim + 25 * r.qual + 15 * r.recency + 5 * r.page

BookFinalScore(sim, r) == 55 * sim + 25 * r.qual + 15 * r.recency + 5 * r.page
PaperFinalScore(sim, r) == 60 * sim + 30 * r.qual + 10 * r.recency
FinalScore(c, sim, r) ==
    IF c = "books" THEN BookFinalScore(sim, r) ELSE PaperFinalScore(sim, r)

\* The permutation an argsort of -keys returns: larger keys first; equal keys
\* in the order the build's sort leaves them.
Before(keys, ties, j, i) ==
    \/ keys[j] > keys[i]
    \/ keys[j] = keys[i] /\ (IF ties = "asc" THEN j < i ELSE j > i)

ArgsortBy(keys, ties) ==
    [p \in DOMAIN keys |->
        CHOOSE i \in DOMAIN keys :
            Cardinality({j \in DOMAIN keys : Before(keys, ties, j, i)}) = p - 1]

\* A sort whose order of equal keys depends on what an earlier call left behind.
ArgsortCarriesState(keys, ties) ==
    ArgsortBy(keys, IF result.op = "none" THEN "asc" ELSE "desc")

ArgsortDesc(keys, ties) == ArgsortBy(keys, ties)

\* A truncation that gives up when fewer than k rows are there.
HeadKStrict(s, k) == IF k > Len(s) THEN <<>> ELSE SubSeq(s, 1, k)

\* DataFrame.head(k) / idx[:k]
HeadK(s, k) == SubSeq(s, 1, MinOf(k, Len(s)))

Entry(i, r, sim, fin) ==
    [row |-> i, id |-> r.id, sim |-> sim, final |-> fin,
     qual |-> r.qual, recency |-> r.recency, page |-> r.page]

(***************************************************************************)
(* Embedding strategy (model2).                                            *)
(***************************************************************************)
\* get_query_embedding: the provider's vector of a text, here its words.
Embed(text) == text

\* The matrix np.save writes: one embedding per row of the table.
EmbeddingMatrix(table) ==
    [tag |-> table.tag,
     rows |-> [i \in DOMAIN table.rows |-> Embed(table.rows[i].text)]]

\* RecommendationModel.train, called by start_training: both feature tables
\* are read, both are embedded by the provider, then both matrices are saved.
\* There is no check of what is already on disk.
Train ==
    /\ strategy = "embedding"
    /\ \E providerOk \in BOOLEAN :
         LET readable == \A c \in Cat : feat[c] # Missing
             done == readable /\ providerOk
         IN  /\ embMat' = IF done
                          THEN [c \in Cat |-> EmbeddingMatrix(feat[c])]
                          ELSE embMat
             /\ run' = [op |-> "train", query |-> {},
                        again |-> /\ run.op = "train"
                                  /\ \A c \in Cat : run.gate[c] = "fitted",
                        gate |-> [c \in Cat |-> IF done THEN "fitted" ELSE "failed"]]
    /\ result' = NoResult
    /\ UNCHANGED <<strategy, argsortTies, feat, tfidfModel, tfidfMat, final,
                   cache>>
    /\ UNCHANGED stageVars

\* download_data_from_remote (the embedding app's data manager): every listed
\* file that is missing locally is fetched from the remote bucket; a fetch
\* that fails is logged and skipped.  The bucket holds the feature tables and
\* matrices of one pipeline run over some cleaned tables.
Download ==
    /\ strategy = "embedding"
    /\ \E remote \in [Cat -> CleanedTables],
          gotFeat \in SUBSET Cat, gotMat \in SUBSET Cat :
         /\ feat' = [c \in Cat |->
                       IF feat[c] = Missing /\ c \in gotFeat
                       THEN BuildTable(c, remote[c]) ELSE feat[c]]
         /\ embMat' = [c \in Cat |->
                         IF embMat[c] = Missing /\ c \in gotMat
                         THEN EmbeddingMatrix(BuildTable(c, remote[c]))
                         ELSE embMat[c]]
    /\ run' = [op |-> "download", query |-> {}, again |-> FALSE,
              gate |-> [c \in Cat |-> "none"]]
    /\ result' = NoResult
    /\ UNCHANGED <<strategy, argsortTies, tfidfModel, tfidfMat, final, cache>>
    /\ UNCHANGED stageVars

\* The rows of top_*_df: final_score per row, sort_values descending, head(k).
RankedFrame(c, table, sims, k) ==
    LET fin == [i \in DOMAIN table.rows |-> FinalScore(c, sims[i], table.rows[i])]
        ord == ArgsortDesc(fin, argsortTies)
    IN  HeadK([p \in DOMAIN ord |->
                 Entry(ord[p], table.rows[ord[p]], sims[ord[p]], fin[ord[p]])], k)

\* What a call finds on disk, recorded with its result.
Absent(c) ==
    IF strategy = "embedding"
    THEN feat[c] = Missing \/ embMat[c] = Missing
    ELSE tfidfModel[c] = NoModel \/ tfidfMat[c] = Missing \/ final[c] = Missing

Matrix(c) == IF strategy = "embedding" THEN embMat[c] ELSE tfidfMat[c]

Mismatch(c) ==
    /\ feat[c] # Missing
    /\ Matrix(c) # Missing
    /\ Len(feat[c].rows) # Len(Matrix(c).rows)

\* Whether the call before this one, with no pipeline run in between, returned
\* and had the same arguments.
SameCall(op, q, k) ==
    result.status = "ok" /\ result.op = op /\ result.query = q /\ result.k = k

\* A call that raises: nothing is returned.
Failed(op, why) ==
    [NoResult EXCEPT !.op = op, !.status = "error", !.err = why,
                     !.absent = [c \in Cat |-> Absent(c)],
                     !.mismatch = [c \in Cat |-> Mismatch(c)]]

\* RecommendationModel.recommend, called by start_prediction.
RecommendResult(q, kb, kp, providerOk) ==
    IF feat["books"] = Missing \/ feat["papers"] = Missing
    THEN Failed("recommend", "FileNotFoundError")
    ELSE IF ~providerOk
    THEN Failed("recommend", "ProviderFailure")
    ELSE IF embMat["books"] = Missing \/ embMat["papers"] = Missing
    THEN Failed("recommend", "FileNotFoundError")
    ELSE IF \E c \in Cat : Len(embMat[c].rows) # Len(feat[c].rows)
    THEN Failed("recommend", "ValueError")
    ELSE LET sims == [c \in Cat |->
                        [i \in DOMAIN embMat[c].rows |->
                            CosineSim(Embed(q), embMat[c].rows[i])]]
             k == [c \in Cat |-> IF c = "books" THEN kb ELSE kp]
         IN  [op |-> "recommend", query |-> q, k |-> k, status |-> "ok",
              err |-> "none",
              list |-> [c \in Cat |-> RankedFrame(c, feat[c], sims[c], k[c])],
              used |-> [c \in Cat |->
                          [table |-> feat[c].tag, matrix |-> embMat[c].tag]],
              rows |-> [c \in Cat |-> Len(feat[c].rows)],
              absent |-> [c \in Cat |-> Absent(c)],
              mismatch |-> [c \in Cat |-> Mismatch(c)],
              again |-> SameCall("recommend", q, k)]

\* A recommend that embeds the feature tables again at query time and saves them.
RecommendRefits ==
    /\ strategy = "embedding"
    /\ \E q \in Queries, kb \in Ks, kp \in Ks, providerOk \in BOOLEAN :
         result' = RecommendResult(q, kb, kp, providerOk)
    /\ embMat' = [c \in Cat |->
                    IF feat[c] = Missing THEN embMat[c]
                    ELSE EmbeddingMatrix(feat[c])]
    /\ run' = NoRun
    /\ UNCHANGED <<strategy, argsortTies, feat, tfidfModel, tfidfMat, final, cache>>
    /\ UNCHANGED stageVars

Recommend ==
    /\ strategy = "embedding"
    /\ \E q \in Queries, kb \in Ks, kp \in Ks, providerOk \in BOOLEAN :
         result' = RecommendResult(q, kb, kp, providerOk)
    /\ run' = NoRun
    /\ UNCHANGED <<strategy, argsortTies, feat, tfidfModel, tfidfMat, final,
                   embMat, cache>>
    /\ UNCHANGED stageVars

\* st.session_state.results: None until a prediction was stored, then a dict
\* of the query and the two lists.
NoSession == [set |-> FALSE, query |-> {}, top_books |-> <<>>, top_papers |-> <<>>]

StoredResults(q, r) ==
    [set |-> TRUE, query |-> q,
     top_books |-> r.list["books"], top_papers |-> r.list["papers"]]

\* The session's results after a click with query q whose prediction, if it
\* was made, ended as r: the assignment is the last statement of the try
\* block, after start_prediction returned and its value was parsed.
SessionCleared(prev, q, r) ==
    IF q = {} \/ r.status # "ok" THEN NoSession ELSE StoredResults(q, r)
SessionAfter(prev, q, r) ==
    IF q = {} \/ r.status # "ok" THEN prev ELSE StoredResults(q, r)

\* The Recommend button of the app: a query that is empty after strip() is
\* answered with an error message and no ranking; any other query goes to
\* start_prediction, whose result is stored in the session and shown, or
\* whose exception is shown as an error.
RecommendButton ==
    /\ strategy = "embedding"
    /\ \E q \in Queries, kb \in Ks, kp \in Ks, providerOk \in BOOLEAN :
         /\ result' =
               IF q = {}
               THEN [Failed("button", "Please enter a search query")
                       EXCEPT !.k = [c \in Cat |-> IF c = "books" THEN kb ELSE kp]]
               ELSE RecommendResult(q, kb, kp, providerOk)
         /\ session' = SessionAfter(session, q, RecommendResult(q, kb, kp, providerOk))
    /\ run' = NoRun
    /\ UNCHANGED <<strategy, argsortTies, feat, tfidfModel, tfidfMat, final,
                   embMat, cache>>
    /\ UNCHANGED <<raw, cleaned, txt, calls, expected, ingest>>

(***************************************************************************)
(* TF-IDF strategy (model1).  The trainer and the predictor read the final *)
(* CSV paths books_final_filepath / papers_final_filepath from the config  *)
(* object they are constructed with; the model takes a config that has     *)
(* them.                                                                   *)
(***************************************************************************)
\* TfidfVectorizer(stop_words="english", max_features=5000).fit: the
\* vocabulary is every word of the corpus that is no stop word (5000 is far
\* above the model's word count).
Vocabulary(table) ==
    UNION {table.rows[i].text : i \in DOMAIN table.rows} \ StopWords

\* fit_transform raises ValueError("empty vocabulary") when no word is left.
FitFails(table) == Vocabulary(table) = {}

\* build_tfidf_matrix: the vectorizer and one matrix row per table row.
FittedModel(table) == [tag |-> table.tag, vocab |-> Vocabulary(table)]
FittedMatrix(table) ==
    [tag |-> table.tag,
     rows |-> [i \in DOMAIN table.rows |->
                 table.rows[i].text \cap Vocabulary(table)]]

\* content_similarity_tfidf: tfidf.transform([query]) keeps the words of the
\* vocabulary; cosine similarity against every matrix row.
TfidfSims(q, model, mat) ==
    [i \in DOMAIN mat.rows |-> CosineSim(q \cap model.vocab, mat.rows[i])]

\* A test that is content with one of the two files.
EitherExists(c) == tfidfModel[c] # NoModel \/ tfidfMat[c] # Missing

\* The skip-if-exists test of one category (os.path.exists of both files).
PairExists(c) == tfidfModel[c] # NoModel /\ tfidfMat[c] # Missing

\* The final CSV: the feature table with sim_score and final_score columns.
FinalTable(c, table, sims) ==
    [tag |-> table.tag,
     rows |-> [i \in DOMAIN table.rows |->
                 [id |-> table.rows[i].id,
                  text |-> table.rows[i].text,
                  qual |-> table.rows[i].qual,
                  recency |-> table.rows[i].recency,
                  page |-> table.rows[i].page,
                  sim |-> sims[i],
                  final |-> FinalScore(c, sims[i], table.rows[i])]]]

\* The gate of one category: the pair is loaded when both files exist;
\* otherwise the vectorizer is fitted (which raises on an empty vocabulary),
\* joblib.dump writes the model and sp.save_npz the matrix, and a save that
\* fails leaves the model written without its matrix.
OneGate(c, saveOk) ==
    IF PairExists(c) THEN "skipped"
    ELSE IF FitFails(feat[c]) THEN "failed"
    ELSE IF ~saveOk THEN "halfwritten"
    ELSE "fitted"

\* The books gate, then the papers gate (reached only when the books step did
\* not raise): which model and matrix each category has after the gates.
GateOutcome(c, saveOk) ==
    IF c = "books" THEN OneGate(c, saveOk)
    ELSE IF OneGate("books", saveOk) \in {"failed", "halfwritten"} THEN "notreached"
    ELSE OneGate(c, saveOk)

ModelAfterGate(c, saveOk) ==
    IF GateOutcome(c, saveOk) \in {"fitted", "halfwritten"}
    THEN FittedModel(feat[c]) ELSE tfidfModel[c]
MatrixAfterGate(c, saveOk) ==
    IF GateOutcome(c, saveOk) = "fitted" THEN FittedMatrix(feat[c]) ELSE tfidfMat[c]

\* initiate_recomendation_model(query): read both feature tables; per category
\* load the persisted pair or fit and persist a new one; score the query;
\* attach sim_score (a length mismatch raises) and final_score; write both
\* final CSVs.
Index ==
    /\ strategy = "tfidf"
    /\ \E q \in Queries, saveOk \in BOOLEAN :
         IF \E c \in Cat : feat[c] = Missing
         THEN /\ UNCHANGED <<tfidfModel, tfidfMat, final>>
              /\ run' = [op |-> "index", query |-> q,
                         again |-> run.op = "index" /\ run.query = q,
                         gate |-> [c \in Cat |-> "notreached"]]
         ELSE LET gatesOk == \A c \in Cat :
                                GateOutcome(c, saveOk) \in {"skipped", "fitted"}
                  sims == [c \in Cat |->
                             TfidfSims(q, ModelAfterGate(c, saveOk),
                                       MatrixAfterGate(c, saveOk))]
                  aligned == \A c \in Cat :
                                Len(sims[c]) = Len(feat[c].rows)
              IN  /\ tfidfModel' = [c \in Cat |-> ModelAfterGate(c, saveOk)]
                  /\ tfidfMat' = [c \in Cat |-> MatrixAfterGate(c, saveOk)]
                  /\ final' = IF gatesOk /\ aligned
                              THEN [c \in Cat |-> FinalTable(c, feat[c], sims[c])]
                              ELSE final
                  /\ run' = [op |-> "index", query |-> q,
                             again |-> run.op = "index" /\ run.query = q,
                             gate |-> [c \in Cat |-> GateOutcome(c, saveOk)]]
    /\ result' = NoResult
    /\ UNCHANGED <<strategy, argsortTies, feat, embMat, cache>>
    /\ UNCHANGED stageVars

\* SimplePredictor.__init__: a new predictor has nothing loaded.
NewPredictor ==
    /\ strategy = "tfidf"
    /\ cache # [c \in Cat |-> NotLoaded]
    /\ cache' = [c \in Cat |-> NotLoaded]
    /\ UNCHANGED <<strategy, argsortTies, feat, tfidfModel, tfidfMat, final, embMat,
                   run, result>>
    /\ UNCHANGED stageVars

\* _ensure_artifacts: books, then papers; a category already loaded is kept,
\* one whose files are missing raises (what was loaded before stays loaded).
Loadable(c) == cache[c] # NotLoaded \/ PairExists(c)
CacheAfterEnsure(c) ==
    IF cache[c] # NotLoaded THEN cache[c]
    ELSE IF c = "papers" /\ ~Loadable("books") THEN cache[c]
    ELSE IF PairExists(c) THEN [vec |-> tfidfModel[c], mat |-> tfidfMat[c]]
    ELSE cache[c]

\* _top_k_from_sims: argsort(-sims)[:k], rows outside the table are skipped;
\* sim_score is the call's similarity, final_score the table's column.
RECURSIVE KeepInTable(_, _)
KeepInTable(idx, n) ==
    IF idx = <<>> THEN <<>>
    ELSE IF Head(idx) > n THEN KeepInTable(Tail(idx), n)
    ELSE <<Head(idx)>> \o KeepInTable(Tail(idx), n)

TopKFromSims(sims, table, k) ==
    IF Len(sims) = 0 THEN <<>>
    ELSE LET idx == KeepInTable(HeadK(ArgsortDesc(sims, argsortTies), k),
                                Len(table.rows))
         IN  [p \in DOMAIN idx |->
                Entry(idx[p], table.rows[idx[p]], sims[idx[p]],
                      table.rows[idx[p]].final)]

\* SimplePredictor.predict
PredictResult(q, kb, kp) ==
    IF \E c \in Cat : ~Loadable(c)
    THEN Failed("predict", "ModelTrainingError: TF-IDF artifacts missing")
    ELSE IF \E c \in Cat : final[c] = Missing
    THEN Failed("predict", "ModelTrainingError: Final CSVs missing")
    ELSE LET sims == [c \in Cat |->
                        TfidfSims(q, CacheAfterEnsure(c).vec, CacheAfterEnsure(c).mat)]
             k == [c \in Cat |-> IF c = "books" THEN kb ELSE kp]
         IN  [op |-> "predict", query |-> q, k |-> k, status |-> "ok",
              err |-> "none",
              list |-> [c \in Cat |-> TopKFromSims(sims[c], final[c], k[c])],
              used |-> [c \in Cat |->
                          [table |-> final[c].tag,
                           matrix |-> CacheAfterEnsure(c).mat.tag]],
              rows |-> [c \in Cat |-> Len(final[c].rows)],
              absent |-> [c \in Cat |-> Absent(c)],
              mismatch |-> [c \in Cat |-> Mismatch(c)],
              again |-> SameCall("predict", q, k)]

Predict ==
    /\ strategy = "tfidf"
    /\ \E q \in Queries, kb \in Ks, kp \in Ks :
         result' = PredictResult(q, kb, kp)
    /\ cache' = [c \in Cat |-> CacheAfterEnsure(c)]
    /\ run' = NoRun
    /\ UNCHANGED <<strategy, argsortTies, feat, tfidfModel, tfidfMat, final, embMat>>
    /\ UNCHANGED stageVars

\* The keys of the dict a ranking call returns, and the keys of every entry
\* of its lists: recommend projects the sorted frames on identity columns,
\* _top_k_from_sims builds each entry by hand.
ResultKeys(op) ==
    IF op = "recommend" THEN {"query", "top_books", "top_papers"}
    ELSE {"top_books", "top_papers"}

EntryFields(op, c) ==
    IF op = "recommend"
    THEN IF c = "books"
         THEN {"title", "authors", "description", "publisher", "publishedDate",
               "avgrating", "previewLink"}
         ELSE {"Title", "Authors", "Year", "Citations", "URL"}
    ELSE {"title", "authors", "year", "sim_score", "final_score", "url"}

(***************************************************************************)
(* Ranking calls in flight.  The app serves each session on a thread of    *)
(* its own; a call is a sequence of steps, and the steps of two calls      *)
(* interleave.  The embedding call builds a RecommendationModel of its own *)
(* and keeps everything it reads in local variables.  The TF-IDF calls     *)
(* share one SimplePredictor, whose four fields they test and fill one     *)
(* assignment at a time.                                                   *)
(***************************************************************************)
Callers == {1, 2, 3}
CallK == [c \in Cat |-> IF c = "books" THEN MaxK ELSE 1]

NoOut == [status |-> "none", err |-> "none", list |-> [c \in Cat |-> <<>>]]
NoCall == [pc |-> "idle", q |-> {}, ok |-> TRUE, out |-> NoOut]

\* What the caller of a ranking call sees of it.
Outcome(r) == [status |-> r.status, err |-> r.err, list |-> r.list]
ErrOut(why) == [status |-> "error", err |-> why, list |-> [c \in Cat |-> <<>>]]

\* A query kept where every call in flight writes it.
SharedQuery(i) ==
    IF \E j \in Callers : j # i /\ calls[j].pc \notin {"idle", "done"}
    THEN calls[CHOOSE j \in Callers :
                  j # i /\ calls[j].pc \notin {"idle", "done"}].q
    ELSE calls[i].q

\* The query argument of call i, a local of its frame.
QueryOf(i) == calls[i].q

At(i, pc) == [calls EXCEPT ![i].pc = pc]
Done(i, out) == [calls EXCEPT ![i].pc = "done", ![i].out = out]

\* Everything a ranking call does not write.
rankingReads == <<strategy, argsortTies, feat, tfidfModel, tfidfMat, final,
                  embMat, run, result, raw, cleaned, txt, expected, ingest, session>>

\* predict(query, ...) or start_prediction(query, ...) is entered.
StartCall ==
    /\ \E i \in Callers, q \in Queries, ok \in BOOLEAN :
         /\ calls[i].pc = "idle"
         /\ strategy = "tfidf" => ok
         /\ calls' = [calls EXCEPT ![i] =
                        [pc |-> IF strategy = "tfidf" THEN "ensure_books"
                                ELSE "read_tables",
                         q |-> q, ok |-> ok, out |-> NoOut]]
    /\ UNCHANGED cache
    /\ UNCHANGED rankingReads

\* _ensure_artifacts, the test of one category: both fields set, or both
\* files there, or ModelTrainingError.
FieldsSet(c) == cache[c].vec # NoModel /\ cache[c].mat # Missing
EnsureArtifacts ==
    /\ \E i \in Callers, c \in Cat :
         /\ calls[i].pc = "ensure_" \o c
         /\ calls' =
              IF FieldsSet(c)
              THEN At(i, IF c = "books" THEN "ensure_papers" ELSE "metadata")
              ELSE IF ~PairExists(c)
              THEN Done(i, ErrOut("ModelTrainingError: TF-IDF artifacts missing"))
              ELSE At(i, "load_vec_" \o c)
    /\ UNCHANGED cache
    /\ UNCHANGED rankingReads

\* self.book_vec = joblib.load(...) / self.paper_vec = joblib.load(...)
LoadVec ==
    /\ \E i \in Callers, c \in Cat :
         /\ calls[i].pc = "load_vec_" \o c
         /\ cache' = [cache EXCEPT ![c].vec = tfidfModel[c]]
         /\ calls' = At(i, "load_mat_" \o c)
    /\ UNCHANGED rankingReads

\* self.book_mat = sp.load_npz(...) / self.paper_mat = sp.load_npz(...)
LoadMat ==
    /\ \E i \in Callers, c \in Cat :
         /\ calls[i].pc = "load_mat_" \o c
         /\ cache' = [cache EXCEPT ![c].mat = tfidfMat[c]]
         /\ calls' = At(i, IF c = "books" THEN "ensure_papers" ELSE "metadata")
    /\ UNCHANGED rankingReads

\* _load_metadata: both final CSVs, or ModelTrainingError.
LoadMetadata ==
    /\ \E i \in Callers :
         /\ calls[i].pc = "metadata"
         /\ calls' = IF \E c \in Cat : final[c] = Missing
                     THEN Done(i, ErrOut("ModelTrainingError: Final CSVs missing"))
                     ELSE At(i, "rank_tfidf")
    /\ UNCHANGED cache
    /\ UNCHANGED rankingReads

\* predict: the query against the predictor's fields, then the top k.
RankWithFields ==
    /\ \E i \in Callers :
         /\ calls[i].pc = "rank_tfidf"
         /\ LET sims == [c \in Cat |->
                           TfidfSims(QueryOf(i), cache[c].vec, cache[c].mat)]
            IN  calls' = Done(i, [status |-> "ok", err |-> "none",
                                  list |-> [c \in Cat |->
                                     TopKFromSims(sims[c], final[c], CallK[c])]])
    /\ UNCHANGED cache
    /\ UNCHANGED rankingReads

\* recommend: pd.read_csv of both feature tables.
ReadTables ==
    /\ \E i \in Callers :
         /\ calls[i].pc = "read_tables"
         /\ calls' = IF \E c \in Cat : feat[c] = Missing
                     THEN Done(i, ErrOut("FileNotFoundError"))
                     ELSE At(i, "embed")
    /\ UNCHANGED cache
    /\ UNCHANGED rankingReads

\* recommend: get_query_embedding(query), a request to the provider.
EmbedQuery ==
    /\ \E i \in Callers :
         /\ calls[i].pc = "embed"
         /\ calls' = IF ~calls[i].ok
                     THEN Done(i, ErrOut("ProviderFailure"))
                     ELSE At(i, "load_matrices")
    /\ UNCHANGED cache
    /\ UNCHANGED rankingReads

\* recommend: np.load of both matrices.
LoadMatrices ==
    /\ \E i \in Callers :
         /\ calls[i].pc = "load_matrices"
         /\ calls' = IF \E c \in Cat : embMat[c] = Missing
                     THEN Done(i, ErrOut("FileNotFoundError"))
                     ELSE At(i, "rank_embedding")
    /\ UNCHANGED cache
    /\ UNCHANGED rankingReads

\* recommend: similarities, final scores, sort, head, result.
RankWithLocals ==
    /\ \E i \in Callers :
         /\ calls[i].pc = "rank_embedding"
         /\ calls' = Done(i, Outcome(RecommendResult(QueryOf(i), CallK["books"],
                                                     CallK["papers"], calls[i].ok)))
    /\ UNCHANGED cache
    /\ UNCHANGED rankingReads

\* The call has returned or raised; its thread takes the next request.
ReturnCall ==
    /\ \E i \in Callers :
         /\ calls[i].pc = "done"
         /\ calls' = [calls EXCEPT ![i] = NoCall]
    /\ UNCHANGED cache
    /\ UNCHANGED rankingReads


(***************************************************************************)
(* Specification.                                                          *)
(***************************************************************************)
Init ==
    /\ strategy \in {"tfidf", "embedding"}
    /\ argsortTies \in {"asc", "desc"}
    /\ feat = [c \in Cat |-> Missing]
    /\ tfidfModel = [c \in Cat |-> NoModel]
    /\ tfidfMat = [c \in Cat |-> Missing]
    /\ final = [c \in Cat |-> Missing]
    /\ embMat = [c \in Cat |-> Missing]
    /\ cache = [c \in Cat |-> NotLoaded]
    /\ run = NoRun
    /\ result = NoResult
    /\ raw = [c \in Cat |-> Unreadable]
    /\ cleaned = [c \in Cat |-> NotWritten]
    /\ txt = NoText
    /\ calls = [i \in Callers |-> NoCall]
    /\ expected = [q \in Queries |-> NoResult]
    /\ ingest = NoIngest
    /\ session = NoSession

Next ==
    \/ BuildFeatures
    \/ Train
    \/ Recommend
    \/ Download
    \/ Index
    \/ NewPredictor
    \/ Predict

Spec == Init /\ [][Next]_vars

\* The rest of the pipeline before anything ran.
NothingBuilt ==
    /\ strategy = "embedding"
    /\ argsortTies = "asc"
    /\ feat = [c \in Cat |-> Missing]
    /\ tfidfModel = [c \in Cat |-> NoModel]
    /\ tfidfMat = [c \in Cat |-> Missing]
    /\ final = [c \in Cat |-> Missing]
    /\ embMat = [c \in Cat |-> Missing]
    /\ cache = [c \in Cat |-> NotLoaded]
    /\ run = NoRun
    /\ result = NoResult

\* The cleaning stage over whatever ingestion left in data/external.
CleaningInit ==
    /\ NothingBuilt
    /\ raw \in [Cat -> RawFiles("books") \cup RawFiles("papers")]
    /\ \A c \in Cat : raw[c] \in RawFiles(c)
    /\ cleaned = [c \in Cat |-> NotWritten]
    /\ txt = NoText
    /\ calls = [i \in Callers |-> NoCall]
    /\ expected = [q \in Queries |-> NoResult]
    /\ ingest = NoIngest
    /\ session = NoSession

CleaningNext == Clean

CleaningSpec == CleaningInit /\ [][CleaningNext]_vars

\* One ingestion run into an empty data/external.  Every request returns or
\* raises, and the process is scheduled until it ends.
IngestInit ==
    /\ NothingBuilt
    /\ raw = [c \in Cat |-> Unreadable]
    /\ cleaned = [c \in Cat |-> NotWritten]
    /\ txt = NoText
    /\ calls = [i \in Callers |-> NoCall]
    /\ expected = [q \in Queries |-> NoResult]
    /\ ingest = NoIngest
    /\ session = NoSession

IngestNext ==
    \/ StartIngestion
    \/ FetchBookPage
    \/ BooksLoaded
    \/ FetchPaperPage
    \/ PapersLoaded
    \/ WriteBooks
    \/ WritePapers

IngestSpec == IngestInit /\ [][IngestNext]_vars /\ WF_vars(IngestNext)

\* The app over the artifacts one pipeline run of the embedding strategy
\* left: both feature tables and both matrices, or those of books only.
AppInit ==
    /\ strategy = "embedding"
    /\ argsortTies \in {"asc", "desc"}
    /\ \E tb \in CleanedTables, tp \in CleanedTables, papers \in BOOLEAN :
         LET t == [c \in Cat |-> IF c = "books" THEN tb ELSE tp]
             there == [c \in Cat |-> c = "books" \/ papers]
         IN  /\ feat = [c \in Cat |->
                   IF there[c] THEN BuildTable(c, t[c]) ELSE Missing]
             /\ embMat = [c \in Cat |->
                   IF there[c] THEN EmbeddingMatrix(BuildTable(c, t[c]))
                   ELSE Missing]
    /\ tfidfModel = [c \in Cat |-> NoModel]
    /\ tfidfMat = [c \in Cat |-> Missing]
    /\ final = [c \in Cat |-> Missing]
    /\ cache = [c \in Cat |-> NotLoaded]
    /\ run = NoRun
    /\ result = NoResult
    /\ raw = [c \in Cat |-> Unreadable]
    /\ cleaned = [c \in Cat |-> NotWritten]
    /\ txt = NoText
    /\ calls = [i \in Callers |-> NoCall]
    /\ expected = [q \in Queries |-> NoResult]
    /\ ingest = NoIngest
    /\ session = NoSession

AppNext == RecommendButton

AppSpec == AppInit /\ [][AppNext]_vars

\* clean_text on its own, and on the combined_text of a row.
TextInit ==
    /\ NothingBuilt
    /\ raw = [c \in Cat |-> Unreadable]
    /\ cleaned = [c \in Cat |-> NotWritten]
    /\ txt = NoText
    /\ calls = [i \in Callers |-> NoCall]
    /\ expected = [q \in Queries |-> NoResult]
    /\ ingest = NoIngest
    /\ session = NoSession

TextNext == ApplyCleanText \/ BuildCombinedText

TextSpec == TextInit /\ [][TextNext]_vars

\* Ranking calls over the artifacts one pipeline run left: the feature tables
\* of two cleaned tables and, for the strategy in use, the models, matrices
\* and final tables trained on them (with some query), or nothing for papers.
Trainable == {t \in CleanedTables : ~FitFails(BuildTable("books", t))}

AloneResult(q, ok) ==
    IF strategy = "tfidf"
    THEN Outcome(PredictResult(q, CallK["books"], CallK["papers"]))
    ELSE Outcome(RecommendResult(q, CallK["books"], CallK["papers"], ok))

ConcInit ==
    /\ strategy \in {"tfidf", "embedding"}
    /\ argsortTies \in {"asc", "desc"}
    /\ \E tb \in Trainable, tp \in Trainable, q0 \in Queries, papers \in BOOLEAN :
         LET t == [c \in Cat |-> IF c = "books" THEN tb ELSE tp]
             there == [c \in Cat |-> c = "books" \/ papers]
             table == [c \in Cat |-> BuildTable(c, t[c])]
             tfidf == [c \in Cat |-> there[c] /\ strategy = "tfidf"]
         IN  /\ feat = [c \in Cat |-> IF there[c] THEN table[c] ELSE Missing]
             /\ tfidfModel = [c \in Cat |->
                   IF tfidf[c] THEN FittedModel(table[c]) ELSE NoModel]
             /\ tfidfMat = [c \in Cat |->
                   IF tfidf[c] THEN FittedMatrix(table[c]) ELSE Missing]
             /\ final = [c \in Cat |->
                   IF tfidf[c]
                   THEN FinalTable(c, table[c],
                           TfidfSims(q0, FittedModel(table[c]), FittedMatrix(table[c])))
                   ELSE Missing]
             /\ embMat = [c \in Cat |->
                   IF there[c] /\ strategy = "embedding"
                   THEN EmbeddingMatrix(table[c]) ELSE Missing]
    /\ cache = [c \in Cat |-> NotLoaded]
    /\ run = NoRun
    /\ result = NoResult
    /\ raw = [c \in Cat |-> Unreadable]
    /\ cleaned = [c \in Cat |-> NotWritten]
    /\ txt = NoText
    /\ calls = [i \in Callers |-> NoCall]
    /\ expected = [q \in Queries |-> [ok \in BOOLEAN |-> AloneResult(q, ok)]]
    /\ ingest = NoIngest
    /\ session = NoSession

ConcNext ==
    \/ StartCall
    \/ EnsureArtifacts
    \/ LoadVec
    \/ LoadMat
    \/ LoadMetadata
    \/ RankWithFields
    \/ ReadTables
    \/ EmbedQuery
    \/ LoadMatrices
    \/ RankWithLocals
    \/ ReturnCall

ConcSpec == ConcInit /\ [][ConcNext]_vars
(***************************************************************************)
(* Claims.                                                                 *)
(***************************************************************************)
Other(c) == IF c = "books" THEN "papers" ELSE "books"
Ranked == result.op # "none"
Returned == result.status = "ok"
\* A step of Index or Train (NewPredictor is the only other step that leaves
\* run.op as it is, and it changes the predictor).
IndexingStep == run'.op \in {"index", "train"} /\ cache' = cache /\ result' = NoResult

\* A step of Predict or Recommend (NewPredictor, which keeps the last result,
\* is the step that unloads the predictor).
RankingStep ==
    /\ result'.op # "none"
    /\ \A c \in Cat : cache'[c] = NotLoaded => cache[c] = NotLoaded

\* C1: after an indexing run whose step for a category completed (the pair
\* was loaded or fitted), the persisted similarity matrix of that category has
\* as many rows as its persisted feature table.
C1_MatrixRowsEqualTableRows ==
    \A c \in Cat :
        run.op \in {"index", "train"} /\ run.gate[c] \in {"skipped", "fitted"}
            => Len(Matrix(c).rows) = Len(feat[c].rows)

\* C2: a ranking call made while the matrix and the feature table of a
\* category differ in row count ends in an error and returns no entry of
\* that category.
C2_MismatchIsFatal ==
    \A c \in Cat :
        Ranked /\ result.mismatch[c]
            => result.status = "error" /\ result.list[c] = <<>>

\* C3: an indexing run, of either strategy, whose steps for both categories
\* complete leaves the persisted index of a category as it is when the
\* category has one, and persists one when the category has none, whatever
\* the other category has.
C3_EveryIndexerIsAGate ==
    [][IndexingStep /\ (\A c \in Cat : run'.gate[c] \in {"skipped", "fitted"})
         => \A c \in Cat :
              IF strategy = "tfidf"
              THEN IF PairExists(c)
                   THEN tfidfModel'[c] = tfidfModel[c] /\ tfidfMat'[c] = tfidfMat[c]
                   ELSE tfidfModel'[c] # NoModel /\ tfidfMat'[c] # Missing
              ELSE IF embMat[c] # Missing
                   THEN embMat'[c] = embMat[c]
                   ELSE embMat'[c] # Missing]_vars

\* C4: the matrix and the table a returned ranking combined for a category
\* come from the same generation of the feature table.
C4_SameGeneration ==
    Returned => \A c \in Cat : result.used[c].table = result.used[c].matrix

\* C5: when exactly one category has an artifact missing (and nothing else is
\* wrong), the call returns, with an empty list for that category.
C5_OneCategoryDegrades ==
    \A c \in Cat :
        /\ Ranked
        /\ result.absent[c] /\ ~result.absent[Other(c)]
        /\ ~result.mismatch[Other(c)]
        /\ result.err # "ProviderFailure"
        => Returned /\ result.list[c] = <<>>

\* C6: the final_score of every returned item is the category's weighted sum
\* of the item's sim_score for this call and its stored signals.
C6_FinalScoreFormula ==
    Returned =>
        \A c \in Cat : \A p \in DOMAIN result.list[c] :
            LET e == result.list[c][p]
            IN  e.final = FinalScore(c, e.sim, e)

\* C7: a returned list is in descending order of final_score, and items of
\* equal final_score are in the order of their table rows.
C7_SortedStable ==
    Returned =>
        \A c \in Cat : \A p, r \in DOMAIN result.list[c] :
            p < r =>
                \/ result.list[c][p].final > result.list[c][r].final
                \/ /\ result.list[c][p].final = result.list[c][r].final
                   /\ result.list[c][p].row < result.list[c][r].row

C9_MinKN ==
    /\ Returned =>
         \A c \in Cat :
            Len(result.list[c]) = MinOf(result.k[c], result.rows[c])
    /\ result.status = "error" =>
         \/ \E c \in Cat : result.absent[c] \/ result.mismatch[c]
         \/ result.err = "ProviderFailure"
         \/ result.op = "button" /\ result.query = {}

\* C9 witness: a call that asked for more items than a table has rows.
C9_Witness ==
    /\ Returned
    /\ \E c \in Cat :
         /\ result.k[c] > result.rows[c]
         /\ Len(result.list[c]) = result.rows[c]
         /\ result.rows[c] >= 1

C12_NoPartialOutput ==
    [][(\E c \in Cat : ~raw[c].ok) => cleaned' = cleaned]_vars

\* C16: in a cleaned table no two rows have the same title, and every row of
\* the cleaned books table has a positive page count and a title or
\* description with a keyword of the allow-list.
C16_CleanedRows ==
    \A c \in Cat :
        cleaned[c].written =>
            LET rows == cleaned[c].rows
            IN  /\ \A i, j \in DOMAIN rows : i # j => rows[i].title # rows[j].title
                /\ c = "books" =>
                     \A i \in DOMAIN rows :
                        rows[i].pages > 0 /\ MatchesKeyword(rows[i])

\* C16 witness: two ingested books of one title, both with a keyword and
\* pages, of which the cleaned table keeps the first.
C16_Witness ==
    /\ cleaned["books"].written
    /\ Len(raw["books"].rows) = 2
    /\ raw["books"].rows[1].title = raw["books"].rows[2].title
    /\ raw["books"].rows[1] # raw["books"].rows[2]
    /\ \A i \in 1..2 : raw["books"].rows[i].pages > 0
    /\ cleaned["books"].rows = <<raw["books"].rows[1]>>
\* C14: the combined_text of a row is a string, has no uppercase letter, no
\* punctuation character, no two whitespace characters in a row and no
\* whitespace at either end, and the persisted value reads back as the same
\* string.
C14_CombinedTextClean ==
    txt.op = "combined_text" =>
        LET x == txt.out.s
        IN  /\ txt.out.status = "returned"
            /\ \A i \in DOMAIN x : x[i] \in {"a", "n", "7", " "}
            /\ \A i \in DOMAIN x : i > 1 => ~(x[i] = " " /\ x[i - 1] = " ")
            /\ x # <<>> => x[1] # " " /\ x[Len(x)] # " "
            /\ txt.back = [kind |-> "str", s |-> x]

\* C15: clean_text returns a string for every value and never raises; for an
\* empty string, a missing value and a value its body fails on, it returns
\* the empty string.
C15_CleanTextTotal ==
    txt.op = "clean_text" =>
        /\ txt.out.status = "returned"
        /\ \/ txt.input.kind \in {"nan", "list"}
           \/ txt.input.kind = "str" /\ txt.input.s = <<>>
           => txt.out.s = <<>>

\* C15 witness: a value the body of clean_text raises on.
C15_Witness ==
    /\ txt.op = "clean_text"
    /\ txt.input.kind = "list"
    /\ txt.out = Gave(<<>>)
C17_FeaturesAgain ==
    /\ run.op = "features" /\ run'.op = "features"
    /\ run'.gate = run.gate
    /\ \A c \in Cat : run.gate[c] = "written" => feat'[c].tag = feat[c].tag

C17_TrainAgain ==
    /\ run.op = "train" /\ run'.op = "train"
    /\ \A c \in Cat : run.gate[c] = "fitted"

C17_IndexAgain ==
    /\ run.op = "index" /\ run'.op = "index"
    /\ run'.query = run.query
    /\ \A c \in Cat : "halfwritten" \notin {run.gate[c], run'.gate[c]}

C17_CleaningIdempotent ==
    [][\A c \in Cat : cleaned[c].written => cleaned'[c] = cleaned[c]]_vars

C18_SecondaryDecides ==
    Returned =>
        \A c \in Cat :
            LET l == result.list[c]
            IN  /\ Len(l) = result.rows[c]
                /\ \A p, r \in DOMAIN l : l[p].sim = l[r].sim
                => \A p, r \in DOMAIN l :
                      p < r => FinalScore(c, 0, l[p]) >= FinalScore(c, 0, l[r])
\* C19: a returned result has the keys query, top_books and top_papers, and
\* every entry of its lists has a title and the keys sim_score and final_score.
C19_ResultShape ==
    Returned =>
        /\ {"query", "top_books", "top_papers"} \subseteq ResultKeys(result.op)
        /\ \A c \in Cat :
              result.list[c] # <<>> =>
                 /\ {"sim_score", "final_score"} \subseteq EntryFields(result.op, c)
                 /\ EntryFields(result.op, c) \cap {"title", "Title"} # {}
\* C20: a ranking request with the empty query, with every artifact present
\* and of matching length and the embedding provider answering, returns, and
\* each list has min(k, n) entries.
C20_EmptyQueryAccepted ==
    /\ Ranked
    /\ result.query = {}
    /\ result.err # "ProviderFailure"
    /\ \A c \in Cat : ~result.absent[c] /\ ~result.mismatch[c]
    => /\ Returned
       /\ \A c \in Cat :
             Len(result.list[c]) = MinOf(result.k[c], result.rows[c])

\* C20 for the ranking functions alone, without the button in front of them.
C20_FunctionsAcceptEmptyQuery ==
    result.op # "button" => C20_EmptyQueryAccepted
\* C11: with the artifacts as one pipeline run left them and ranking calls
\* interleaving in any order, every call that has finished holds the result
\* (or the error) the same call gives when it runs alone.
C11_NoInterference ==
    \A i \in Callers :
        calls[i].pc = "done" => calls[i].out = expected[calls[i].q][calls[i].ok]

\* C11 witness: a TF-IDF call that returned its lists while a call with
\* another query, which found the shared predictor empty, is between its two
\* loads.
C11_Witness ==
    /\ strategy = "tfidf"
    /\ calls[1].pc = "done"
    /\ calls[1].out.status = "ok"
    /\ calls[1].out.list["books"] # <<>>
    /\ calls[2].pc = "load_mat_books"
    /\ calls[2].q # calls[1].q
\* C21: every score column of a feature table is the min-max normalisation
\* over the rows that have the raw value: min and max over those rows,
\* (x - min) / (max - min) for them, 0 for the other rows, and 0 throughout
\* when no row has the value.
C21_ValidOnly(vals) ==
    LET valid == {i \in DOMAIN vals : vals[i] \notin {NoVal, Blank}}
    IN  IF valid = {} THEN [i \in DOMAIN vals |-> 0]
        ELSE LET lo == Min({vals[i] : i \in valid})
                 hi == Max({vals[i] : i \in valid})
             IN  [i \in DOMAIN vals |->
                    IF i \notin valid \/ hi = lo THEN 0
                    ELSE (100 * (vals[i] - lo)) \div (hi - lo)]

C21_NormalisedOverValidRows ==
    \A c \in Cat :
        feat[c] # Missing =>
            LET src == CleanedTable(feat[c].tag[1], feat[c].tag[2]).rows
                rows == feat[c].rows
            IN  /\ [i \in DOMAIN rows |-> rows[i].recency]
                      = C21_ValidOnly([i \in DOMAIN src |-> src[i].year])
                /\ [i \in DOMAIN rows |-> rows[i].qual]
                      = C21_ValidOnly([i \in DOMAIN src |-> src[i].qual])
                /\ c = "books" =>
                     [i \in DOMAIN rows |-> rows[i].page]
                        = C21_ValidOnly([i \in DOMAIN src |-> src[i].pages])
\* A concatenation in which a missing cell counts as the empty string.
CombinedOfPresent(parts) ==
    LET str(i) == IF parts[i].kind = "nan" THEN <<>> ELSE parts[i].s
    IN  str(1) \o <<" ">> \o str(2) \o <<" ">> \o str(3) \o <<" ">> \o str(4)

\* C22: the combined_text of a row is the cleaned concatenation of its text
\* cells in column order with the empty string in the place of a missing
\* cell: a missing cell adds no token.
C22_MissingAddsNothing ==
    txt.op = "combined_text" =>
        txt.out = CleanText([kind |-> "str", s |-> CombinedOfPresent(txt.cells)])
\* C23: no cleaning run ends, for either category, on a record that lacks a
\* source field: such a record gets a default and the stage goes on.
C23_MissingFieldsTolerated ==
    run.op = "clean" => \A c \in Cat : run.gate[c] # "record_error"
\* C24: a feature table built from a cleaned table that lacked a date,
\* rating / citation or page count column was written, and the score derived
\* from the absent column is 0 in every row.
C24_AbsentColumnScoresZero ==
    \A c \in Cat :
        feat[c] # Missing =>
            LET src == CleanedTable(feat[c].tag[1], feat[c].tag[2]).rows
            IN  /\ Len(feat[c].rows) = Len(src)
                /\ \A i \in DOMAIN src :
                      /\ src[i].year = Blank => feat[c].rows[i].recency = 0
                      /\ src[i].qual = Blank => feat[c].rows[i].qual = 0
                      /\ src[i].pages = Blank => feat[c].rows[i].page = 0

\* C24 witness: a feature-building run that wrote the books table from a
\* cleaned table of two rows without the date and page count columns.
C24_Witness ==
    /\ run.op = "features"
    /\ run.gate["books"] = "written"
    /\ Len(feat["books"].rows) = 2
    /\ \A i \in DOMAIN feat["books"].rows :
          /\ CleanedTable(feat["books"].tag[1], feat["books"].tag[2]).rows[i].pages = Blank
          /\ feat["books"].rows[i].page = 0
\* C25: a feature table has the rows of its cleaned table in their order, no
\* column besides the cleaned ones and recency_score, rating_score or
\* citations_score, page_score (books) and combined_text, and, for books,
\* the publishedDate of the cleaned table in every cell.
C25_OnlyAddsColumns ==
    \A c \in Cat :
        feat[c] # Missing =>
            LET src == CleanedTable(feat[c].tag[1], feat[c].tag[2]).rows
            IN  /\ [i \in DOMAIN feat[c].rows |-> feat[c].rows[i].id]
                      = [i \in DOMAIN src |-> src[i].id]
                /\ CleanedColumns(c) \subseteq FeatureColumns(c)
                /\ FeatureColumns(c) \ CleanedColumns(c) \subseteq
                      {"recency_score", "combined_text",
                       IF c = "books" THEN "rating_score" ELSE "citations_score"}
                      \cup (IF c = "books" THEN {"page_score"} ELSE {})
                /\ c = "books" =>
                      \A d \in DateCells : PublishedDateWritten(d) = d
\* C26: an indexing run skips the fit of a category only when both the model
\* and the matrix exist, and leaves them as they are; when it fits, both are
\* written from the one fit of the feature table; so after every gate that
\* completed, the model and the matrix of the category exist and come from
\* the same fit.
C26_PairFromOneFit ==
    [][run'.op = "index" =>
         \A c \in Cat :
            /\ run'.gate[c] = "skipped" =>
                  /\ PairExists(c)
                  /\ tfidfModel'[c] = tfidfModel[c] /\ tfidfMat'[c] = tfidfMat[c]
            /\ run'.gate[c] = "fitted" =>
                  /\ tfidfModel'[c] = FittedModel(feat[c])
                  /\ tfidfMat'[c] = FittedMatrix(feat[c])
            /\ run'.gate[c] \in {"skipped", "fitted"} =>
                  /\ tfidfModel'[c] # NoModel /\ tfidfMat'[c] # Missing
                  /\ tfidfModel'[c].tag = tfidfMat'[c].tag]_vars

\* C26 witness: the books gate fitted in a run that repeats the run before
\* it, which had left the model without its matrix.
C26_Witness ==
    /\ run.op = "index" /\ run.again
    /\ run.gate["books"] = "fitted"
    /\ tfidfModel["books"].tag = tfidfMat["books"].tag
    /\ tfidfMat["books"] # Missing
\* C27: the cleaned books table holds a title exactly when the earliest
\* keyword record of that title in the ingested file has a positive page
\* count, and the row of the title is that record, whatever later records of
\* the title look like.
C27_FirstOf(rows, t) ==
    {i \in DOMAIN rows :
        /\ rows[i].title = t /\ MatchesKeyword(rows[i])
        /\ \A j \in 1..(i - 1) : ~(rows[j].title = t /\ MatchesKeyword(rows[j]))}

C27_DedupBeforePages ==
    cleaned["books"].written =>
        LET src == raw["books"].rows
            out == cleaned["books"].rows
        IN  \A t \in {"t1", "t2"} :
               LET kept == {i \in DOMAIN out : out[i].title = t}
                   first == C27_FirstOf(src, t)
               IN  /\ kept # {} <=> \E i \in first : src[i].pages > 0
                   /\ \A k \in kept : \A i \in first : out[k] = src[i]

\* C27 witness: two keyword records of one title, the first without pages and
\* the second with pages, and a cleaned books table without that title.
C27_Witness ==
    /\ cleaned["books"].written
    /\ Len(raw["books"].rows) = 2
    /\ raw["books"].rows[1].title = raw["books"].rows[2].title
    /\ \A i \in 1..2 : MatchesKeyword(raw["books"].rows[i])
    /\ raw["books"].rows[1].pages = 0
    /\ raw["books"].rows[2].pages > 0
    /\ cleaned["books"].rows = <<>>
\* C28: for signals and a sim_score between 0 and 1 the final_score of a book
\* and of a paper is between 0 and 1 (0..10000 in the units of the model: the
\* weights are in hundredths and so are the scores); so is the final_score
\* of every row of a final table and of every returned entry.
C28_Grid == {0, 1, 50, 99, 100}
C28_InUnit(x) == x \in 0..10000

C28_FinalScoreInUnit ==
    /\ \A c \in Cat : \A sim, q, rec, pg \in C28_Grid :
          C28_InUnit(FinalScore(c, sim, [qual |-> q, recency |-> rec, page |-> pg]))
    /\ \A c \in Cat :
          /\ \A i \in DOMAIN final[c].rows :
                final[c].rows[i].sim \in 0..100 => C28_InUnit(final[c].rows[i].final)
          /\ \A p \in DOMAIN result.list[c] :
                result.list[c][p].sim \in 0..100 => C28_InUnit(result.list[c][p].final)

\* C28 witness: a returned book with a positive sim_score, the best rating,
\* recency and page count, and a final_score above one half.
C28_Witness ==
    /\ Returned
    /\ \E p \in DOMAIN result.list["books"] :
          LET e == result.list["books"][p]
          IN  /\ e.sim > 0 /\ e.qual = 100 /\ e.recency = 100 /\ e.page = 100
              /\ e.final = BookFinalScore(e.sim, e)
              /\ e.final > 5000

CeilDiv(a, b) == (a + b - 1) \div b

\* The offsets of the pages of keyword q that all_papers holds.
C29_KeptOffsets(q) ==
    {ingest.papers[j].off : j \in {j \in DOMAIN ingest.papers : ingest.papers[j].q = q}}

\* The offsets of the requests of keyword q that were answered with items.
C29_AnsweredOffsets(q) ==
    {(i - 1) * PaperLimit :
        i \in {i \in DOMAIN ingest.log[q] : ingest.log[q][i] = "items"}}

C29_Safe ==
    /\ \A q \in 1..MaxQueries :
          /\ Len(ingest.log[q]) <= CeilDiv(PaperMaxResults, PaperLimit)
          /\ \A i \in 1..(Len(ingest.log[q]) - 1) : ingest.log[q][i] = "items"
          /\ C29_KeptOffsets(q) = C29_AnsweredOffsets(q)
    /\ ingest.fetched => \A q \in 1..ingest.np : ingest.log[q] # <<>>
    /\ \A c \in Cat : raw[c].ok => ingest.fetched
    /\ raw["papers"].ok => Len(raw["papers"].rows) = Len(ingest.papers)

C29_Ended == ingest.pc \in {"done", "failed"}

\* C29: an ingestion run ends, and at every moment of it: no paper keyword
\* has had more than ceil(max_results / limit) requests; every request of a
\* keyword but its last was answered with items (paging stops at the first
\* other status or empty page); the pages answered with items are the pages
\* kept; once the papers loop is over every keyword has been asked at least
\* once (a keyword that broke off did not end the loop); and a raw file
\* exists only if both fetch loops ran to their end.
C29_IngestionTerminates == [](C29_Safe) /\ <>(C29_Ended)

\* An ingestion that wrote both files after the first keyword's paging broke
\* off at its second request and the second keyword still gave a page.
C29_Witness ==
    /\ ingest.pc = "done"
    /\ ingest.np = 2
    /\ ingest.log[1] = <<"items", "non200">>
    /\ ingest.log[2][1] = "items"
    /\ raw["papers"].ok /\ Len(raw["papers"].rows) >= 2
    /\ raw["books"].ok /\ raw["books"].rows # <<>>

\* C30: a click that ends in an error (a blank query, or a prediction that
\* raises) leaves the session's results as they were; the results change
\* only on a click whose prediction returned, and are then the submitted
\* query and the two lists of that prediction.
C30_SessionKeptOnError ==
    [][ /\ result'.status = "error" => session' = session
        /\ session' # session => result'.status = "ok"
        /\ result'.status = "ok" =>
              session' = [set |-> TRUE, query |-> result'.query,
                          top_books |-> result'.list["books"],
                          top_papers |-> result'.list["papers"]] ]_vars

\* Results were stored, and the click after that raised.
C30_Witness ==
    /\ session.set
    /\ session.top_books # <<>>
    /\ result.status = "error" /\ result.err = "ProviderFailure"
====
